---- MODULE Spec2Model ----
(***************************************************************************)
(* micro-journal backend: the journal store (SQLite table journal_entries) *)
(* and the journal manager (validation, page-size clamp, page-token codec) *)
(* as a state machine.                                                     *)
(*                                                                         *)
(* Text is modelled at two levels.  Titles and contents are plain strings  *)
(* (only equality with "" matters to the code).  Page tokens are sequences *)
(* of one-character strings, and the text a token decodes to is a sequence *)
(* of byte values, so that base64 and strconv are computed, not assumed.   *)
(*                                                                         *)
(* The storage clock (CURRENT_TIMESTAMP) is an environment input: it never *)
(* runs backwards and may stay equal across several statements.            *)
(* The storage engine itself does not fail in the specifications below.    *)
(***************************************************************************)
EXTENDS Integers, Sequences, FiniteSets, TLC

VARIABLES rows, seq, clock, req, resp, calls, old, born, walk, rpc, procs, mock

vars == <<rows, seq, clock, req, resp, calls, old, born, walk, rpc, procs, mock>>

(* ------------------------------ bounds -------------------------------- *)

MaxCreates == 2

MaxClock == 2

MaxEntries == 25

MaxMockEntries == 3

(* ------------------------- program constants -------------------------- *)

DefaultPageSize == 10

MaxPageSize == 100

(* ----------------------------- utilities ------------------------------ *)

Min(a, b) == IF a < b THEN a ELSE b

Max(a, b) == IF a > b THEN a ELSE b

(* ---------------------- encoding/base64 StdEncoding -------------------- *)

Alphabet ==
  << "A","B","C","D","E","F","G","H","I","J","K","L","M",
     "N","O","P","Q","R","S","T","U","V","W","X","Y","Z",
     "a","b","c","d","e","f","g","h","i","j","k","l","m",
     "n","o","p","q","r","s","t","u","v","w","x","y","z",
     "0","1","2","3","4","5","6","7","8","9","+","/" >>

PadChar == "="

AlphabetChars == {Alphabet[i] : i \in 1..64}

B64Char(v) == Alphabet[v + 1]

B64Index(c) == (CHOOSE i \in 1..64 : Alphabet[i] = c) - 1

RECURSIVE EncodeToString(_)
EncodeToString(b) ==
  IF Len(b) = 0 THEN << >>
  ELSE IF Len(b) = 1 THEN
    LET v == b[1] * 65536
    IN  << B64Char(v \div 262144), B64Char((v \div 4096) % 64), PadChar, PadChar >>
  ELSE IF Len(b) = 2 THEN
    LET v == (b[1] * 65536) + (b[2] * 256)
    IN  << B64Char(v \div 262144), B64Char((v \div 4096) % 64),
           B64Char((v \div 64) % 64), PadChar >>
  ELSE
    LET v == (b[1] * 65536) + (b[2] * 256) + b[3]
    IN  << B64Char(v \div 262144), B64Char((v \div 4096) % 64),
           B64Char((v \div 64) % 64), B64Char(v % 64) >>
        \o EncodeToString(SubSeq(b, 4, Len(b)))

(* The decoder skips "\r" and "\n" anywhere, then wants whole quanta of    *)
(* four characters; only the last quantum may end in "=" or "==".  The     *)
(* unused low bits of a padded quantum are not checked (non-strict mode).  *)
StripNewlines(s) == SelectSeq(s, LAMBDA c : c \notin {"\n", "\r"})

QuantumOk(q, last) ==
  \/ \A i \in 1..4 : q[i] \in AlphabetChars
  \/ /\ last
     /\ q[1] \in AlphabetChars /\ q[2] \in AlphabetChars
     /\ \/ q[3] = PadChar /\ q[4] = PadChar
        \/ q[3] \in AlphabetChars /\ q[4] = PadChar

QuantumBytes(q) ==
  LET i1 == B64Index(q[1])
      i2 == B64Index(q[2])
  IN  IF q[3] = PadChar THEN << (i1 * 4) + (i2 \div 16) >>
      ELSE LET i3 == B64Index(q[3])
           IN  IF q[4] = PadChar
               THEN << (i1 * 4) + (i2 \div 16), ((i2 % 16) * 16) + (i3 \div 4) >>
               ELSE << (i1 * 4) + (i2 \div 16), ((i2 % 16) * 16) + (i3 \div 4),
                       ((i3 % 4) * 64) + B64Index(q[4]) >>

RECURSIVE DecodeQuanta(_)
DecodeQuanta(s) ==
  IF Len(s) = 0 THEN [ok |-> TRUE, bytes |-> << >>]
  ELSE LET q    == SubSeq(s, 1, 4)
           rest == SubSeq(s, 5, Len(s))
       IN  IF ~QuantumOk(q, Len(rest) = 0) THEN [ok |-> FALSE, bytes |-> << >>]
           ELSE LET r == DecodeQuanta(rest)
                IN  IF r.ok THEN [ok |-> TRUE, bytes |-> QuantumBytes(q) \o r.bytes]
                    ELSE r

DecodeString(tok) ==
  LET s == StripNewlines(tok)
  IN  IF Len(s) % 4 # 0 THEN [ok |-> FALSE, bytes |-> << >>]
      ELSE DecodeQuanta(s)

(* ------------------------------ strconv ------------------------------- *)

RECURSIVE Digits(_)
Digits(n) == IF n < 10 THEN << 48 + n >> ELSE Digits(n \div 10) \o << 48 + (n % 10) >>

Itoa(n) == IF n < 0 THEN << 45 >> \o Digits(0 - n) ELSE Digits(n)

RECURSIVE DigitsValue(_)
DigitsValue(d) ==
  IF Len(d) = 0 THEN 0
  ELSE (DigitsValue(SubSeq(d, 1, Len(d) - 1)) * 10) + (d[Len(d)] - 48)

(* Atoi on the short-string path (fewer than 19 bytes, no overflow): an    *)
(* optional sign, then one or more decimal digits, nothing else.           *)
Atoi(b) ==
  LET signed == Len(b) > 0 /\ b[1] \in {43, 45}
      d      == IF signed THEN Tail(b) ELSE b
  IN  IF Len(d) = 0 \/ \E i \in 1..Len(d) : d[i] \notin 48..57
      THEN [ok |-> FALSE, val |-> 0]
      ELSE [ok |-> TRUE,
            val |-> IF signed /\ b[1] = 45 THEN 0 - DigitsValue(d) ELSE DigitsValue(d)]

(* ------------------------------ errors -------------------------------- *)
(* An error is the constant prefix of the message the code formats.       *)

NoError == ""

ErrTitleEmpty == "title cannot be empty"

ErrContentEmpty == "content cannot be empty"

ErrInvalidPageToken == "invalid page token"

ErrNotFound == "journal entry not found"

ErrInsert == "failed to insert journal entry"

ErrGet == "failed to get journal entry"

ErrUpdate == "failed to update journal entry"

ErrDelete == "failed to delete journal entry"

ErrCount == "failed to count journal entries"

ErrQuery == "failed to query journal entries"

(* The errors a method wraps around an error of the database driver. *)
StorageErrors == {ErrInsert, ErrGet, ErrUpdate, ErrDelete, ErrCount, ErrQuery}

(* --------------------------- domain.JournalEntry ----------------------- *)

JournalEntry(id, row) ==
  [id |-> id, title |-> row.title, content |-> row.content,
   created_at |-> row.created_at, updated_at |-> row.updated_at]

NilEntry == [id |-> 0, title |-> "", content |-> "", created_at |-> 0, updated_at |-> 0]

(* ------------------- table journal_entries (SQLite) -------------------- *)
(* r is the table: a function from the ids present to their rows.         *)
(* s is sqlite_sequence.seq for the table: the largest id ever assigned.   *)

RowIds(r) == DOMAIN r

MaxRowId(r) == IF RowIds(r) = {} THEN 0 ELSE CHOOSE a \in RowIds(r) : \A b \in RowIds(r) : b <= a

(* id INTEGER PRIMARY KEY AUTOINCREMENT *)
(* Mutant of NextRowId: a rowid table without AUTOINCREMENT. *)
NextRowIdNoAutoincrement(r, s) == MaxRowId(r) + 1

NextRowId(r, s) == Max(s, MaxRowId(r)) + 1

(* Mutant of InsertRow: the two text arguments bound in the wrong order. *)
InsertRowSwapped(r, s, now, title, content) ==
  LET id == NextRowId(r, s)
  IN  [rows |-> [i \in RowIds(r) \cup {id} |->
                   IF i = id
                   THEN [title |-> content, content |-> title,
                         created_at |-> now, updated_at |-> now]
                   ELSE r[i]],
       seq  |-> id,
       id   |-> id]

(* INSERT INTO journal_entries (title, content, created_at, updated_at)    *)
(* VALUES (?, ?, CURRENT_TIMESTAMP, CURRENT_TIMESTAMP)                     *)
InsertRow(r, s, now, title, content) ==
  LET id == NextRowId(r, s)
  IN  [rows |-> [i \in RowIds(r) \cup {id} |->
                   IF i = id
                   THEN [title |-> title, content |-> content,
                         created_at |-> now, updated_at |-> now]
                   ELSE r[i]],
       seq  |-> id,
       id   |-> id]

(* Mutant of UpdateRow: the statement has no WHERE. *)
UpdateRowNoWhere(r, now, id, title, content) ==
  [rows |-> [i \in RowIds(r) |-> [title |-> title, content |-> content,
                                  created_at |-> r[i].created_at,
                                  updated_at |-> now]],
   affected |-> Cardinality(RowIds(r))]

(* Mutant of UpdateRow: updated_at is set to the zero time. *)
UpdateRowZeroStamp(r, now, id, title, content) ==
  IF id \in RowIds(r)
  THEN [rows |-> [r EXCEPT ![id] = [title |-> title, content |-> content,
                                    created_at |-> @.created_at, updated_at |-> 0]],
        affected |-> 1]
  ELSE [rows |-> r, affected |-> 0]

(* Mutant of UpdateRow: the statement sets the title only. *)
UpdateRowTitleOnly(r, now, id, title, content) ==
  IF id \in RowIds(r)
  THEN [rows |-> [r EXCEPT ![id] = [title |-> title, content |-> @.content,
                                    created_at |-> @.created_at, updated_at |-> now]],
        affected |-> 1]
  ELSE [rows |-> r, affected |-> 0]

(* Mutant of UpdateRow: the statement also resets created_at. *)
UpdateRowTouchesCreated(r, now, id, title, content) ==
  IF id \in RowIds(r)
  THEN [rows |-> [r EXCEPT ![id] = [title |-> title, content |-> content,
                                    created_at |-> now, updated_at |-> now]],
        affected |-> 1]
  ELSE [rows |-> r, affected |-> 0]

(* UPDATE journal_entries SET title = ?, content = ?,                      *)
(* updated_at = CURRENT_TIMESTAMP WHERE id = ?                             *)
UpdateRow(r, now, id, title, content) ==
  IF id \in RowIds(r)
  THEN [rows |-> [r EXCEPT ![id] = [title |-> title, content |-> content,
                                    created_at |-> @.created_at, updated_at |-> now]],
        affected |-> 1]
  ELSE [rows |-> r, affected |-> 0]

(* Mutant of DeleteRow: WHERE id <= ?. *)
DeleteRowUpTo(r, id) ==
  IF id \in RowIds(r)
  THEN [rows |-> [i \in {j \in RowIds(r) : j > id} |-> r[i]], affected |-> 1]
  ELSE [rows |-> r, affected |-> 0]

(* DELETE FROM journal_entries WHERE id = ? *)
DeleteRow(r, id) ==
  IF id \in RowIds(r)
  THEN [rows |-> [i \in RowIds(r) \ {id} |-> r[i]], affected |-> 1]
  ELSE [rows |-> r, affected |-> 0]

(* Mutant of CountRows: SELECT MAX(id). *)
CountRowsMaxId(r) == MaxRowId(r)

(* SELECT COUNT( * ) FROM journal_entries *)
CountRows(r) == Cardinality(RowIds(r))

(* Mutant of OrderBefore: ORDER BY created_at DESC alone, ties in rowid order. *)
OrderBeforeNoTieBreak(r, a, b) ==
  \/ r[a].created_at > r[b].created_at
  \/ r[a].created_at = r[b].created_at /\ a < b

(* ORDER BY created_at DESC, id DESC *)
OrderBefore(r, a, b) ==
  \/ r[a].created_at > r[b].created_at
  \/ r[a].created_at = r[b].created_at /\ a > b

OrderedIds(r) ==
  SortSeq(SelectSeq([i \in 1..MaxRowId(r) |-> i], LAMBDA i : i \in RowIds(r)),
          LAMBDA a, b : OrderBefore(r, a, b))

(* Mutant of Window: the window takes one row more than the limit. *)
WindowInclusive(ids, limit, offset) ==
  LET off == IF offset < 0 THEN 0 ELSE offset
      lim == IF limit < 0 THEN Len(ids) ELSE limit
  IN  SubSeq(ids, off + 1, Min((off + lim) + 1, Len(ids)))

(* LIMIT ? OFFSET ?: a negative OFFSET counts as 0, a negative LIMIT as    *)
(* no limit.                                                               *)
Window(ids, limit, offset) ==
  LET off == IF offset < 0 THEN 0 ELSE offset
      lim == IF limit < 0 THEN Len(ids) ELSE limit
  IN  SubSeq(ids, off + 1, Min(off + lim, Len(ids)))

SelectWindow(r, limit, offset) ==
  LET ids == Window(OrderedIds(r), limit, offset)
  IN  [i \in 1..Len(ids) |-> JournalEntry(ids[i], r[ids[i]])]

(* ----------------------------- JournalStore ---------------------------- *)
(* Every method returns the table after the call and what the caller gets. *)

(* Mutant of GetByID: the SELECT has no WHERE and takes the newest row. *)
GetByIDNoWhere(r, id) ==
  IF id \in RowIds(r)
  THEN [err |-> NoError, entry |-> JournalEntry(MaxRowId(r), r[MaxRowId(r)])]
  ELSE [err |-> ErrNotFound, entry |-> NilEntry]

GetByID(r, id) ==
  IF id \in RowIds(r)
  THEN [err |-> NoError, entry |-> JournalEntry(id, r[id])]
  ELSE [err |-> ErrNotFound, entry |-> NilEntry]

Create(r, s, now, title, content) ==
  LET ins == InsertRow(r, s, now, title, content)
      got == GetByID(ins.rows, ins.id)
  IN  [rows |-> ins.rows, seq |-> ins.seq, err |-> got.err, entry |-> got.entry]

Update(r, now, id, title, content) ==
  LET upd == UpdateRow(r, now, id, title, content)
  IN  IF upd.affected = 0
      THEN [rows |-> upd.rows, err |-> ErrNotFound, entry |-> NilEntry]
      ELSE LET got == GetByID(upd.rows, id)
           IN  [rows |-> upd.rows, err |-> got.err, entry |-> got.entry]

(* Mutant of Delete: the rows-affected check is missing. *)
DeleteUnchecked(r, id) ==
  [rows |-> DeleteRow(r, id).rows, err |-> NoError]

Delete(r, id) ==
  LET del == DeleteRow(r, id)
  IN  IF del.affected = 0
      THEN [rows |-> del.rows, err |-> ErrNotFound]
      ELSE [rows |-> del.rows, err |-> NoError]

(* Mutant of List: the total is the length of the page. *)
ListCountsPage(r, limit, offset) ==
  [entries |-> SelectWindow(r, limit, offset),
   totalCount |-> Len(SelectWindow(r, limit, offset)), err |-> NoError]

(* Mutant of List: the query has no OFFSET. *)
ListNoOffset(r, limit, offset) ==
  [entries |-> SelectWindow(r, limit, 0), totalCount |-> CountRows(r), err |-> NoError]

List(r, limit, offset) ==
  [entries |-> SelectWindow(r, limit, offset), totalCount |-> CountRows(r), err |-> NoError]

(* The methods on a database that may fail a statement.  A fault names    *)
(* the statement of the method the driver returns an error for: "exec" is  *)
(* its first statement, "query" its second one, "none" means no failure.   *)
(* A failed statement changes nothing.                                     *)

NoFault == "none"

Faults == {NoFault, "exec", "query"}

GetByIDOn(fault, r, id) ==
  IF fault = "exec"
  THEN [err |-> ErrGet, entry |-> NilEntry]
  ELSE GetByID(r, id)

CreateOn(fault, r, s, now, title, content) ==
  IF fault = "exec"
  THEN [rows |-> r, seq |-> s, err |-> ErrInsert, entry |-> NilEntry]
  ELSE IF fault = "query"
  THEN LET ins == InsertRow(r, s, now, title, content)
       IN  [rows |-> ins.rows, seq |-> ins.seq, err |-> ErrGet, entry |-> NilEntry]
  ELSE Create(r, s, now, title, content)

UpdateOn(fault, r, now, id, title, content) ==
  IF fault = "exec"
  THEN [rows |-> r, err |-> ErrUpdate, entry |-> NilEntry]
  ELSE IF fault = "query" /\ UpdateRow(r, now, id, title, content).affected # 0
  THEN [rows |-> UpdateRow(r, now, id, title, content).rows,
        err |-> ErrGet, entry |-> NilEntry]
  ELSE Update(r, now, id, title, content)

DeleteOn(fault, r, id) ==
  IF fault = "exec"
  THEN [rows |-> r, err |-> ErrDelete]
  ELSE Delete(r, id)

ListOn(fault, r, limit, offset) ==
  IF fault = "exec"
  THEN [entries |-> << >>, totalCount |-> 0, err |-> ErrCount]
  ELSE IF fault = "query"
  THEN [entries |-> << >>, totalCount |-> 0, err |-> ErrQuery]
  ELSE List(r, limit, offset)

(* ---------------------------- JournalManager --------------------------- *)
(* A manager method yields the response and the store calls it made, in    *)
(* order.  Ghost state: old holds the timestamps the row a request names   *)
(* had before the request (NoRow if there was no such row), born[i] the    *)
(* created_at that id i was inserted with.                                 *)

Response(err, entry, entries, token, total) ==
  [err |-> err, entry |-> entry, entries |-> entries,
   nextPageToken |-> token, totalCount |-> total]

ErrorResponse(err) == Response(err, NilEntry, << >>, << >>, 0)

StoreCall(m, id, title, content, limit, offset) ==
  [m |-> m, id |-> id, title |-> title, content |-> content,
   limit |-> limit, offset |-> offset]

(* Mutant of Validate: nothing is checked. *)
ValidateSkipped(title, content) == NoError

(* Mutant of Validate: the content check is missing. *)
ValidateTitleOnly(title, content) ==
  IF title = "" THEN ErrTitleEmpty ELSE NoError

Validate(title, content) ==
  IF title = "" THEN ErrTitleEmpty
  ELSE IF content = "" THEN ErrContentEmpty
  ELSE NoError

(* Mutant of ClampPageSize: no default for a page size of zero or less. *)
ClampPageSizeNoDefault(pageSize) ==
  IF pageSize > MaxPageSize THEN MaxPageSize ELSE pageSize

ClampPageSize(pageSize) ==
  LET defaulted == IF pageSize <= 0 THEN DefaultPageSize ELSE pageSize
  IN  IF defaulted > MaxPageSize THEN MaxPageSize ELSE defaulted

(* Mutant of DecodeOffset: a token that cannot be read counts as offset 0. *)
DecodeOffsetFallback(pageToken) ==
  IF pageToken = << >> THEN [err |-> NoError, offset |-> 0]
  ELSE LET decoded == DecodeString(pageToken)
       IN  IF ~decoded.ok THEN [err |-> NoError, offset |-> 0]
           ELSE LET parsed == Atoi(decoded.bytes)
                IN  IF ~parsed.ok THEN [err |-> NoError, offset |-> 0]
                    ELSE [err |-> NoError, offset |-> parsed.val]

DecodeOffset(pageToken) ==
  IF pageToken = << >> THEN [err |-> NoError, offset |-> 0]
  ELSE LET decoded == DecodeString(pageToken)
       IN  IF ~decoded.ok THEN [err |-> ErrInvalidPageToken, offset |-> 0]
           ELSE LET parsed == Atoi(decoded.bytes)
                IN  IF ~parsed.ok THEN [err |-> ErrInvalidPageToken, offset |-> 0]
                    ELSE [err |-> NoError, offset |-> parsed.val]

(* Mutant of NextPageToken: <= where the code has <. *)
NextPageTokenInclusive(offset, n, totalCount) ==
  LET nextOffset == offset + n
  IN  IF nextOffset <= totalCount THEN EncodeToString(Itoa(nextOffset)) ELSE << >>

NextPageToken(offset, n, totalCount) ==
  LET nextOffset == offset + n
  IN  IF nextOffset < totalCount THEN EncodeToString(Itoa(nextOffset)) ELSE << >>

ListEntriesResult(r, pageSize, pageToken) ==
  LET limit == ClampPageSize(pageSize)
      dec   == DecodeOffset(pageToken)
  IN  IF dec.err # NoError
      THEN [resp |-> ErrorResponse(dec.err), calls |-> << >>]
      ELSE LET lst == List(r, limit, dec.offset)
           IN  [resp  |-> Response(NoError, NilEntry, lst.entries,
                                   NextPageToken(dec.offset, Len(lst.entries), lst.totalCount),
                                   lst.totalCount),
                calls |-> << StoreCall("List", 0, "", "", limit, dec.offset) >>]

(* ListEntries on a database that may fail a statement of store.List. *)
ListEntriesOn(fault, r, pageSize, pageToken) ==
  LET out == ListEntriesResult(r, pageSize, pageToken)
      lst == ListOn(fault, r, ClampPageSize(pageSize), 0)
  IN  IF out.calls = << >> \/ lst.err = NoError
      THEN out
      ELSE [resp |-> ErrorResponse(lst.err), calls |-> out.calls]

(* ----------------------------- JournalService -------------------------- *)
(* The gRPC handler.  An id travels as text, a sequence of bytes; a reply  *)
(* is a status code and a response message, nil when the code is not OK.   *)

OK == "OK"

InvalidArgument == "InvalidArgument"

Internal == "Internal"

(* Mutant of ParseInt: text that is no number counts as 0. *)
ParseIntLenient(b) ==
  IF Atoi(b).ok THEN Atoi(b) ELSE [ok |-> TRUE, val |-> 0]

(* strconv.ParseInt(s, 10, 64): the syntax Atoi takes; text of 20 bytes    *)
(* or more is out of the range of int64.                                   *)
ParseInt(b) ==
  IF Len(b) >= 20 THEN [ok |-> FALSE, val |-> 0] ELSE Atoi(b)

MaxInt32 == 2147483647

(* int32(n) of an int64 n that is at most one wrap away from the range. *)
Int32(n) ==
  IF n > MaxInt32 THEN ((n - MaxInt32) - MaxInt32) - 2
  ELSE IF n < (0 - MaxInt32) - 1 THEN (n + MaxInt32) + (MaxInt32 + 2)
  ELSE n

(* Mutant of domainToProto: the id is converted with string(rune(id)). *)
domainToProtoRuneId(entry) ==
  [id |-> << entry.id >>, title |-> entry.title, content |-> entry.content,
   created_at |-> entry.created_at, updated_at |-> entry.updated_at]

ProtoEntry(id, title, content, created_at, updated_at) ==
  [id |-> id, title |-> title, content |-> content,
   created_at |-> created_at, updated_at |-> updated_at]

NilProto == ProtoEntry(<< >>, "", "", 0, 0)

domainToProto(entry) ==
  ProtoEntry(Itoa(entry.id), entry.title, entry.content,
             entry.created_at, entry.updated_at)

RpcResponse(isNil, entry, entries, token, total, success) ==
  [nil |-> isNil, entry |-> entry, entries |-> entries,
   nextPageToken |-> token, totalCount |-> total, success |-> success]

NilResponse == RpcResponse(TRUE, NilProto, << >>, << >>, 0, FALSE)

(* Mutant of RpcStatus: DeleteJournalEntry reports success whatever the    *)
(* manager returned.                                                       *)
RpcStatusDeleteSwallowed(op, err) ==
  IF op = "DeleteJournalEntry" \/ err = NoError THEN OK ELSE InvalidArgument

(* Mutant of RpcStatus: one code for the errors of every operation. *)
RpcStatusUniform(op, err) ==
  IF err = NoError THEN OK ELSE InvalidArgument

(* The status code a handler gives to what the manager returned. *)
RpcStatus(op, err) ==
  IF err = NoError THEN OK
  ELSE IF op = "DeleteJournalEntry" THEN Internal
  ELSE InvalidArgument

(* The response message a handler builds from what the manager returned. *)
RpcMessage(op, r) ==
  IF op = "DeleteJournalEntry"
  THEN RpcResponse(FALSE, NilProto, << >>, << >>, 0, TRUE)
  ELSE IF op = "ListJournalEntries"
  THEN RpcResponse(FALSE, NilProto,
                   [i \in 1..Len(r.entries) |-> domainToProto(r.entries[i])],
                   r.nextPageToken, Int32(r.totalCount), FALSE)
  ELSE RpcResponse(FALSE, domainToProto(r.entry), << >>, << >>, 0, FALSE)

(* What a handler returns after its call of the manager. *)
RpcReply(op, idText, r) ==
  [op |-> op, id |-> idText, called |-> TRUE, code |-> RpcStatus(op, r.err),
   out |-> IF RpcStatus(op, r.err) = OK THEN RpcMessage(op, r) ELSE NilResponse]

(* What a handler returns for an id that is no number. *)
RpcBadId(op, idText) ==
  [op |-> op, id |-> idText, called |-> FALSE, code |-> InvalidArgument,
   out |-> NilResponse]

NoRpc ==
  [op |-> "none", id |-> << >>, called |-> FALSE, code |-> OK, out |-> NilResponse]

(* ------------------------------- inputs -------------------------------- *)

Titles == {"", "t1", "t2"}

Contents == {"", "c1"}

Ids == 1..(MaxCreates + 1)

TokenInvalid == << "i","n","v","a","l","i","d","-","t","o","k","e","n" >>

(* Tokens a client may send: well-formed offsets, negative and signed      *)
(* numbers, text that is not a number, and strings that are not base64.    *)
TamperedTokens ==
  { TokenInvalid,
    << "M","Q" >>,
    << "\n" >>,
    EncodeToString(<< 97, 98, 99 >>),
    EncodeToString(<< 45 >>) }

SignedTokens ==
  { EncodeToString(Itoa(0 - 5)),
    EncodeToString(<< 43, 50 >>),
    << "M","R","=","=","\n" >> }

PageTokens == { << >>, EncodeToString(Itoa(1)), EncodeToString(Itoa(0 - 1)) }

PageSizes == {0, 1, 2}

WalkTokens ==
  {EncodeToString(Itoa(n)) : n \in {10, 20, 26}}
    \cup { << >> } \cup TamperedTokens \cup SignedTokens

(* Timestamps the entries of a filled store carry. *)
PageClocks == 1..2

WalkSizes == {0 - 1, 0, 1, 10, 100, 500}

(* Id texts that are no decimal number of 64 bits: a word, the empty text, *)
(* a number with a letter after it, and twenty nines.                      *)
IdInvalid == << 105, 110, 118, 97, 108, 105, 100 >>

MalformedIds ==
  { IdInvalid, << >>, << 49, 120 >>, [i \in 1..20 |-> 57] }

(* Id texts a client may send: ids of rows, signed numbers, and the        *)
(* malformed ones.                                                         *)
IdTexts ==
  {Itoa(i) : i \in 1..MaxCreates} \cup { << 43, 49 >>, Itoa(0 - 1) } \cup MalformedIds

RpcTitles == {"", "t1", "t2"}

RpcTokens == PageTokens \cup {TokenInvalid}

NoRow == [exists |-> FALSE, created_at |-> 0, updated_at |-> 0]

RowBefore(r, id) ==
  IF id \in RowIds(r)
  THEN [exists |-> TRUE, created_at |-> r[id].created_at, updated_at |-> r[id].updated_at]
  ELSE NoRow

Request(op, id, title, content, pageSize, pageToken) ==
  [op |-> op, id |-> id, title |-> title, content |-> content,
   pageSize |-> pageSize, pageToken |-> pageToken]

NoRequest == Request("none", 0, "", "", 0, << >>)

(* A walk: the pages got so far (acc the ids, sizes and totals per page);  *)
(* base is the set of ids the table had at the first fetch, muts the kinds *)
(* of writes made between its fetches, seen what finished walks found.     *)
IdleWalk ==
  [state |-> "idle", pageSize |-> 0, start |-> << >>, token |-> << >>,
   acc |-> << >>, sizes |-> << >>, totals |-> << >>,
   base |-> {}, muts |-> {}, seen |-> {}]

(* The requests that run side by side, none of them started. *)
Procs == {"p1", "p2"}

IdleProc ==
  [op |-> "none", pc |-> "idle", id |-> 0, title |-> "", content |-> "",
   err |-> NoError, entry |-> NilEntry,
   limit |-> 0, offset |-> 0, total |-> 0, entries |-> << >>]

IdleProcs == [p \in Procs |-> IdleProc]

(* ------------------------- MockJournalClient -------------------------- *)
(* The in-memory Swift client: a dictionary of entries keyed by the text   *)
(* of their id, the next id, and the flag that makes every call throw.     *)
(* Of an entry the model keeps what listEntries reads: id and createdAt.   *)

(* A Swift optional. *)
None == [some |-> FALSE, val |-> << >>]

Some(v) == [some |-> TRUE, val |-> v]

(* String(n) of an Int: its decimal text. *)
StringInit(n) == IF n < 0 THEN << 45 >> \o Digits(0 - n) ELSE Digits(n)

(* Int(text): nil unless the text is an optional sign and decimal digits   *)
(* (texts short enough not to overflow).                                   *)
IntInit(text) ==
  LET signed == Len(text) > 0 /\ text[1] \in {43, 45}
      d      == IF signed THEN Tail(text) ELSE text
  IN  IF Len(d) = 0 \/ \E i \in 1..Len(d) : d[i] \notin 48..57
      THEN [some |-> FALSE, val |-> 0]
      ELSE [some |-> TRUE,
            val |-> IF signed /\ text[1] = 45 THEN 0 - DigitsValue(d) ELSE DigitsValue(d)]

MockNoError == "none"

MockServerError == "serverError(Simulated error)"

MockNotFound == "notFound"

MockEntry(id, now) == [id |-> id, createdAt |-> now]

(* entries[id] = entry *)
MockPut(entries, entry) ==
  [k \in DOMAIN entries \cup {entry.id} |-> IF k = entry.id THEN entry ELSE entries[k]]

(* entries.removeValue(forKey: id) *)
MockRemove(entries, id) == [k \in DOMAIN entries \ {id} |-> entries[k]]

(* entries.values.sorted { $0.createdAt > $1.createdAt }: the values of    *)
(* the dictionary come in no fixed order and entries of one createdAt      *)
(* compare as equal, so every arrangement with createdAt never rising is   *)
(* a result the sort can give.                                             *)
SortedEntries(entries) ==
  LET n == Cardinality(DOMAIN entries)
  IN  { [i \in 1..n |-> entries[f[i]]] :
          f \in { g \in [1..n -> DOMAIN entries] :
                    /\ \A i, j \in 1..n : i # j => g[i] # g[j]
                    /\ \A i, j \in 1..n : i < j =>
                         entries[g[i]].createdAt >= entries[g[j]].createdAt } }

MockStartIndex(pageToken) ==
  IF pageToken.some /\ IntInit(pageToken.val).some THEN IntInit(pageToken.val).val ELSE 0

MockEndIndex(sortedEntries, pageSize, pageToken) ==
  Min(MockStartIndex(pageToken) + pageSize, Len(sortedEntries))

(* startIndex..<endIndex stops the program when startIndex > endIndex, and *)
(* the subscript stops it when the range leaves 0...count.                 *)
MockTraps(sortedEntries, pageSize, pageToken) ==
  LET startIndex == MockStartIndex(pageToken)
      endIndex   == MockEndIndex(sortedEntries, pageSize, pageToken)
  IN  startIndex > endIndex \/ startIndex < 0 \/ endIndex > Len(sortedEntries)

MockReply(error, entries, nextPageToken, totalCount) ==
  [error |-> error, trap |-> FALSE, entries |-> entries,
   nextPageToken |-> nextPageToken, totalCount |-> totalCount]

MockTrap == [MockReply(MockNoError, << >>, None, 0) EXCEPT !.trap = TRUE]

(* The body of listEntries on one result of the sort. *)
MockListEntries(sortedEntries, pageSize, pageToken) ==
  LET startIndex == MockStartIndex(pageToken)
      endIndex   == MockEndIndex(sortedEntries, pageSize, pageToken)
  IN  IF MockTraps(sortedEntries, pageSize, pageToken)
      THEN MockTrap
      ELSE MockReply(MockNoError,
                     SubSeq(sortedEntries, startIndex + 1, endIndex),
                     IF endIndex < Len(sortedEntries) THEN Some(StringInit(endIndex)) ELSE None,
                     Len(sortedEntries))

MockCall(op, id, pageSize, pageToken) ==
  [op |-> op, id |-> id, pageSize |-> pageSize, pageToken |-> pageToken]

(* init(preloadedEntries: []) *)
IdleMock ==
  [entries |-> << >>, nextId |-> 1, now |-> 1, shouldSimulateError |-> FALSE,
   issued |-> {}, crashed |-> FALSE,
   call |-> MockCall("none", << >>, 0, None),
   reply |-> MockReply(MockNoError, << >>, None, 0)]

MockSizes == {1, 2}

MockIds == {StringInit(i) : i \in 1..MaxMockEntries}

(* ------------------------------- actions ------------------------------- *)

Init ==
  /\ rows = << >>
  /\ seq = 0
  /\ clock = 1
  /\ req = NoRequest
  /\ resp = ErrorResponse(NoError)
  /\ calls = << >>
  /\ old = NoRow
  /\ born = << >>
  /\ walk = IdleWalk
  /\ rpc = NoRpc
  /\ procs = IdleProcs
  /\ mock = IdleMock

(* CURRENT_TIMESTAMP moves on between two statements. *)
Tick ==
  /\ clock < MaxClock
  /\ clock' = clock + 1
  /\ UNCHANGED <<rows, seq, req, resp, calls, old, born, walk, rpc, procs, mock>>

(* born after an insert that took the sequence to s and the table to r. *)
BornAfter(r, s) ==
  [i \in 1..s |->
     IF i \in DOMAIN born THEN born[i]
     ELSE IF i \in RowIds(r) THEN r[i].created_at
     ELSE 0]

(* The manager's methods, each on a database that fails the statement      *)
(* fault names.                                                            *)

DoCreateEntry(fault, title, content) ==
  /\ req' = Request("CreateEntry", 0, title, content, 0, << >>)
  /\ old' = NoRow
  /\ IF Validate(title, content) # NoError
     THEN /\ resp' = ErrorResponse(Validate(title, content))
          /\ calls' = << >>
          /\ UNCHANGED <<rows, seq, born>>
     ELSE LET out == CreateOn(fault, rows, seq, clock, title, content)
          IN  /\ rows' = out.rows
              /\ seq' = out.seq
              /\ born' = BornAfter(out.rows, out.seq)
              /\ resp' = Response(out.err, out.entry, << >>, << >>, 0)
              /\ calls' = << StoreCall("Create", 0, title, content, 0, 0) >>
  /\ UNCHANGED clock

DoGetEntry(fault, id) ==
  LET out == GetByIDOn(fault, rows, id)
  IN  /\ req' = Request("GetEntry", id, "", "", 0, << >>)
      /\ old' = RowBefore(rows, id)
      /\ resp' = Response(out.err, out.entry, << >>, << >>, 0)
      /\ calls' = << StoreCall("GetByID", id, "", "", 0, 0) >>
      /\ UNCHANGED <<rows, seq, clock, born>>

DoUpdateEntry(fault, id, title, content) ==
  /\ req' = Request("UpdateEntry", id, title, content, 0, << >>)
  /\ old' = RowBefore(rows, id)
  /\ IF Validate(title, content) # NoError
     THEN /\ resp' = ErrorResponse(Validate(title, content))
          /\ calls' = << >>
          /\ UNCHANGED rows
     ELSE LET out == UpdateOn(fault, rows, clock, id, title, content)
          IN  /\ rows' = out.rows
              /\ resp' = Response(out.err, out.entry, << >>, << >>, 0)
              /\ calls' = << StoreCall("Update", id, title, content, 0, 0) >>
  /\ UNCHANGED <<seq, clock, born>>

DoDeleteEntry(fault, id) ==
  LET out == DeleteOn(fault, rows, id)
  IN  /\ req' = Request("DeleteEntry", id, "", "", 0, << >>)
      /\ old' = RowBefore(rows, id)
      /\ rows' = out.rows
      /\ resp' = ErrorResponse(out.err)
      /\ calls' = << StoreCall("Delete", id, "", "", 0, 0) >>
      /\ UNCHANGED <<seq, clock, born>>

DoListEntries(fault, pageSize, pageToken) ==
  LET out == ListEntriesOn(fault, rows, pageSize, pageToken)
  IN  /\ req' = Request("ListEntries", 0, "", "", pageSize, pageToken)
      /\ old' = NoRow
      /\ resp' = out.resp
      /\ calls' = out.calls
      /\ UNCHANGED <<rows, seq, clock, born>>

(* The manager called directly, on a database that does not fail. *)

CreateEntry ==
  \E title \in Titles, content \in Contents :
    /\ seq < MaxCreates
    /\ DoCreateEntry(NoFault, title, content)
    /\ UNCHANGED <<walk, rpc, procs, mock>>

GetEntry ==
  \E id \in Ids :
    /\ DoGetEntry(NoFault, id)
    /\ UNCHANGED <<walk, rpc, procs, mock>>

UpdateEntry ==
  \E id \in Ids, title \in Titles, content \in Contents :
    /\ DoUpdateEntry(NoFault, id, title, content)
    /\ UNCHANGED <<walk, rpc, procs, mock>>

DeleteEntry ==
  \E id \in Ids :
    /\ DoDeleteEntry(NoFault, id)
    /\ UNCHANGED <<walk, rpc, procs, mock>>

ListEntries ==
  \E pageSize \in PageSizes, pageToken \in PageTokens :
    /\ DoListEntries(NoFault, pageSize, pageToken)
    /\ UNCHANGED <<walk, rpc, procs, mock>>

Next == Tick \/ CreateEntry \/ GetEntry \/ UpdateEntry \/ DeleteEntry \/ ListEntries

Spec == Init /\ [][Next]_vars

(* --------------------- requests through the handler -------------------- *)
(* Every request comes in through JournalService; the database may fail    *)
(* any one statement.  req, resp and calls are what the handler's call of  *)
(* the manager was and came to, or NoRequest when it made none.            *)

ManagerNotCalled ==
  /\ req' = NoRequest
  /\ resp' = ErrorResponse(NoError)
  /\ calls' = << >>
  /\ old' = NoRow
  /\ UNCHANGED <<rows, seq, clock, born>>

CreateJournalEntry ==
  \E fault \in Faults, title \in RpcTitles, content \in Contents :
    /\ seq < MaxCreates
    /\ DoCreateEntry(fault, title, content)
    /\ rpc' = RpcReply("CreateJournalEntry", << >>, resp')
    /\ UNCHANGED <<walk, procs, mock>>

UpdateJournalEntry ==
  \E fault \in Faults, idText \in IdTexts, title \in RpcTitles, content \in Contents :
    /\ IF ParseInt(idText).ok
       THEN /\ DoUpdateEntry(fault, ParseInt(idText).val, title, content)
            /\ rpc' = RpcReply("UpdateJournalEntry", idText, resp')
       ELSE /\ ManagerNotCalled
            /\ rpc' = RpcBadId("UpdateJournalEntry", idText)
    /\ UNCHANGED <<walk, procs, mock>>

DeleteJournalEntry ==
  \E fault \in Faults, idText \in IdTexts :
    /\ IF ParseInt(idText).ok
       THEN /\ DoDeleteEntry(fault, ParseInt(idText).val)
            /\ rpc' = RpcReply("DeleteJournalEntry", idText, resp')
       ELSE /\ ManagerNotCalled
            /\ rpc' = RpcBadId("DeleteJournalEntry", idText)
    /\ UNCHANGED <<walk, procs, mock>>

ListJournalEntries ==
  \E fault \in Faults, pageSize \in PageSizes, pageToken \in RpcTokens :
    /\ DoListEntries(fault, pageSize, pageToken)
    /\ rpc' = RpcReply("ListJournalEntries", << >>, resp')
    /\ UNCHANGED <<walk, procs, mock>>

RpcNext ==
  CreateJournalEntry \/ UpdateJournalEntry \/ DeleteJournalEntry
    \/ ListJournalEntries

RpcSpec == Init /\ [][RpcNext]_vars

(* The handler's requests and the manager's GetEntry, which no handler     *)
(* calls.                                                                  *)
FrameGet ==
  \E fault \in Faults, id \in Ids :
    /\ DoGetEntry(fault, id)
    /\ rpc' = NoRpc
    /\ UNCHANGED <<walk, procs, mock>>

FrameNext == RpcNext \/ FrameGet

FrameSpec == Init /\ [][FrameNext]_vars

(* ------------------ a long table through the handler ------------------- *)
(* Entries are created, the newest one updated, and pages listed, all      *)
(* through JournalService, on a table that grows to MaxEntries rows.       *)

WireSizes == {1, 10, 100}

WireTokens == { << >>, EncodeToString(Itoa(10)) }

WireCreate ==
  /\ seq < MaxEntries
  /\ DoCreateEntry(NoFault, "t1", "c1")
  /\ rpc' = RpcReply("CreateJournalEntry", << >>, resp')
  /\ UNCHANGED <<walk, procs, mock>>

WireUpdate ==
  /\ seq >= 1
  /\ ParseInt(Itoa(seq)).ok
  /\ DoUpdateEntry(NoFault, ParseInt(Itoa(seq)).val, "t1", "c1")
  /\ rpc' = RpcReply("UpdateJournalEntry", Itoa(seq), resp')
  /\ UNCHANGED <<walk, procs, mock>>

WireList ==
  \E pageSize \in WireSizes, pageToken \in WireTokens :
    /\ DoListEntries(NoFault, pageSize, pageToken)
    /\ rpc' = RpcReply("ListJournalEntries", << >>, resp')
    /\ UNCHANGED <<walk, procs, mock>>

WireNext == WireCreate \/ WireUpdate \/ WireList

WireSpec == Init /\ [][WireNext]_vars

(* ------------------- a client following page tokens -------------------- *)
(* The store is filled by CreateEntry calls made one after another; then   *)
(* one client starts from some token and page size and keeps sending the   *)
(* nextPageToken it was given until it gets an empty one or an error.      *)

MaxWalkSteps == MaxEntries + 8

EntryIds(entries) == [i \in 1..Len(entries) |-> entries[i].id]

(* The walk w after the answer r to the request for its next page. *)
WalkAfter(w, r) ==
  IF r.err # NoError
  THEN [w EXCEPT !.state = "failed"]
  ELSE [w EXCEPT
          !.state  = IF r.nextPageToken = << >> THEN "done" ELSE "walking",
          !.token  = r.nextPageToken,
          !.acc    = @ \o EntryIds(r.entries),
          !.sizes  = Append(@, Len(r.entries)),
          !.totals = Append(@, r.totalCount)]

PageCreate ==
  /\ walk.state = "idle"
  /\ seq < MaxEntries
  /\ DoCreateEntry(NoFault, "t1", "c1")
  /\ UNCHANGED <<walk, rpc, procs, mock>>

PageTick ==
  /\ walk.state = "idle"
  /\ clock + 1 \in PageClocks
  /\ clock' = clock + 1
  /\ UNCHANGED <<rows, seq, req, resp, calls, old, born, walk, rpc, procs, mock>>

WalkStart ==
  \E pageSize \in WalkSizes, pageToken \in WalkTokens :
    /\ walk.state = "idle"
    /\ walk' = [IdleWalk EXCEPT !.state = "walking", !.pageSize = pageSize,
                                !.start = pageToken, !.token = pageToken]
    /\ UNCHANGED <<rows, seq, clock, req, resp, calls, old, born, rpc, procs, mock>>

WalkStep ==
  /\ walk.state = "walking"
  /\ Len(walk.sizes) < MaxWalkSteps
  /\ DoListEntries(NoFault, walk.pageSize, walk.token)
  /\ UNCHANGED <<rpc, procs, mock>>
  /\ walk' = WalkAfter(walk, resp')

PageNext == PageCreate \/ PageTick \/ WalkStart \/ WalkStep

PageSpec == Init /\ [][PageNext]_vars

(* ------------------ pages fetched while others write ------------------- *)
(* One client walks the pages from the empty token, one page per request,  *)
(* again and again; between two of its fetches other clients create and    *)
(* delete entries.                                                         *)

MutSizes == {1, 2}

Duplicated(acc) == \E i, j \in 1..Len(acc) : i < j /\ acc[i] = acc[j]

(* An id the table had at the first fetch and still has, on no page. *)
Omitted(w, r) ==
  \E id \in w.base \cap RowIds(r) : \A i \in 1..Len(w.acc) : w.acc[i] # id

BetweenFetches == walk.state = "walking" => Len(walk.sizes) >= 1

Mutated(kind) ==
  IF walk.state = "walking" THEN [walk EXCEPT !.muts = @ \cup {kind}] ELSE walk

MutCreate ==
  /\ BetweenFetches
  /\ seq < MaxCreates + 1
  /\ DoCreateEntry(NoFault, "t1", "c1")
  /\ walk' = Mutated("create")
  /\ UNCHANGED <<rpc, procs, mock>>

MutDelete ==
  \E id \in RowIds(rows) :
    /\ BetweenFetches
    /\ DoDeleteEntry(NoFault, id)
    /\ walk' = Mutated("delete")
    /\ UNCHANGED <<rpc, procs, mock>>

MutWalkStart ==
  \E pageSize \in MutSizes :
    /\ walk.state \in {"idle", "done"}
    /\ walk' = [IdleWalk EXCEPT !.state = "walking", !.pageSize = pageSize,
                                !.seen = walk.seen]
    /\ UNCHANGED <<rows, seq, clock, req, resp, calls, old, born, rpc, procs, mock>>

MutWalkStep ==
  /\ walk.state = "walking"
  /\ Len(walk.sizes) < MaxWalkSteps
  /\ DoListEntries(NoFault, walk.pageSize, walk.token)
  /\ LET w == WalkAfter([walk EXCEPT !.base = IF walk.sizes = << >>
                                              THEN RowIds(rows) ELSE @],
                        resp')
     IN  walk' =
           IF w.state # "done" THEN w
           ELSE [w EXCEPT !.seen =
                   @ \cup (IF Duplicated(w.acc) /\ w.muts = {"create"}
                           THEN {"duplicate"} ELSE {})
                     \cup (IF Omitted(w, rows) /\ w.muts = {"delete"}
                           THEN {"omitted"} ELSE {})]
  /\ UNCHANGED <<rpc, procs, mock>>

MutNext == MutCreate \/ MutDelete \/ MutWalkStart \/ MutWalkStep

MutSpec == Init /\ [][MutNext]_vars

(* ------------------- requests running side by side -------------------- *)
(* Each of two clients has one request at a time in the manager.  The      *)
(* database runs one statement at a time (a pool of one connection), so a  *)
(* step is one statement of one request: Create is an INSERT and then a    *)
(* SELECT of the new id, Update an UPDATE and then a SELECT, Delete one    *)
(* DELETE.  Each client sends a title and content of its own.              *)

SnapLimits == {1, 2}

SnapOffsets == {0, 1}

ProcTitle(p) == IF p = "p1" THEN "t1" ELSE "t2"

ProcContent(p) == IF p = "p1" THEN "c1" ELSE "c2"

Proc(op, pc, id, title, content, err, entry) ==
  [IdleProc EXCEPT !.op = op, !.pc = pc, !.id = id, !.title = title,
                   !.content = content, !.err = err, !.entry = entry]

(* A List request: the total its COUNT gave, the ids of the page its       *)
(* SELECT gave.                                                            *)
ListProc(pc, limit, offset, total, entries) ==
  [IdleProc EXCEPT !.op = "List", !.pc = pc, !.limit = limit, !.offset = offset,
                   !.total = total, !.entries = entries]

Ready(p) == procs[p].pc \in {"idle", "done"}

ConcFrame == UNCHANGED <<clock, req, resp, calls, old, walk, rpc, mock>>

(* store.Create, first statement: INSERT, LastInsertId. *)
ConcInsert(p) ==
  /\ Ready(p)
  /\ seq < MaxCreates
  /\ LET ins == InsertRow(rows, seq, clock, ProcTitle(p), ProcContent(p))
     IN  /\ rows' = ins.rows
         /\ seq' = ins.seq
         /\ born' = BornAfter(ins.rows, ins.seq)
         /\ procs' = [procs EXCEPT ![p] =
                        Proc("CreateEntry", "inserted", ins.id, ProcTitle(p),
                             ProcContent(p), NoError, NilEntry)]
  /\ ConcFrame

(* store.Update, first statement: UPDATE, RowsAffected. *)
ConcUpdate(p) ==
  \E id \in 1..MaxCreates :
    /\ Ready(p)
    /\ LET upd == UpdateRow(rows, clock, id, ProcTitle(p), ProcContent(p))
       IN  /\ rows' = upd.rows
           /\ procs' = [procs EXCEPT ![p] =
                          IF upd.affected = 0
                          THEN Proc("UpdateEntry", "done", id, ProcTitle(p),
                                    ProcContent(p), ErrNotFound, NilEntry)
                          ELSE Proc("UpdateEntry", "updated", id, ProcTitle(p),
                                    ProcContent(p), NoError, NilEntry)]
    /\ UNCHANGED <<seq, born>>
    /\ ConcFrame

(* The SELECT that store.Create and store.Update end with. *)
ConcReadBack(p) ==
  /\ procs[p].pc \in {"inserted", "updated"}
  /\ LET got == GetByID(rows, procs[p].id)
     IN  procs' = [procs EXCEPT ![p].pc = "done", ![p].err = got.err,
                                ![p].entry = got.entry]
  /\ UNCHANGED <<rows, seq, born>>
  /\ ConcFrame

(* store.Delete: DELETE, RowsAffected. *)
ConcDelete(p) ==
  \E id \in 1..MaxCreates :
    /\ Ready(p)
    /\ LET del == Delete(rows, id)
       IN  /\ rows' = del.rows
           /\ procs' = [procs EXCEPT ![p] =
                          Proc("DeleteEntry", "done", id, "", "", del.err, NilEntry)]
    /\ UNCHANGED <<seq, born>>
    /\ ConcFrame

(* store.List, first statement: SELECT COUNT. *)
ConcCount(p) ==
  \E limit \in SnapLimits, offset \in SnapOffsets :
    /\ Ready(p)
    /\ procs' = [procs EXCEPT ![p] =
                   ListProc("counted", limit, offset, CountRows(rows), << >>)]
    /\ UNCHANGED <<rows, seq, born>>
    /\ ConcFrame

(* store.List, second statement: SELECT ... LIMIT ? OFFSET ?. *)
ConcWindow(p) ==
  /\ procs[p].pc = "counted"
  /\ procs' = [procs EXCEPT ![p] =
                 ListProc("done", procs[p].limit, procs[p].offset, procs[p].total,
                          EntryIds(SelectWindow(rows, procs[p].limit, procs[p].offset)))]
  /\ UNCHANGED <<rows, seq, born>>
  /\ ConcFrame

ConcNext ==
  \/ Tick
  \/ \E p \in Procs : ConcInsert(p)
  \/ \E p \in Procs : ConcUpdate(p)
  \/ \E p \in Procs : ConcReadBack(p)
  \/ \E p \in Procs : ConcDelete(p)

ConcSpec == Init /\ [][ConcNext]_vars

(* Lists running side by side with Creates and Deletes. *)
SnapNext ==
  \/ \E p \in Procs : ConcCount(p)
  \/ \E p \in Procs : ConcWindow(p)
  \/ \E p \in Procs : ConcInsert(p)
  \/ \E p \in Procs : ConcReadBack(p)
  \/ \E p \in Procs : ConcDelete(p)

SnapSpec == Init /\ [][SnapNext]_vars

(* ------------------------------ properties ----------------------------- *)

ListDone == req.op = "ListEntries"

ListOk == ListDone /\ resp.err = NoError

(* C1: pagination coverage.  A client that starts from the empty token and *)
(* follows every nextPageToken until it is empty, over a store of N entries *)
(* created in sequence and not changed meanwhile, has received exactly N   *)
(* entries: every stored id once, newest (largest id) first.               *)
C1_PaginationCoverage ==
  (walk.state = "done" /\ walk.start = << >>) =>
    /\ Len(walk.acc) = Cardinality(RowIds(rows))
    /\ {walk.acc[i] : i \in 1..Len(walk.acc)} = RowIds(rows)
    /\ \A i \in 1..(Len(walk.acc) - 1) : walk.acc[i] > walk.acc[i + 1]

C1_Witness ==
  /\ walk.state = "done"
  /\ walk.start = << >>
  /\ walk.pageSize = 1
  /\ Len(walk.sizes) >= 4
  /\ \E i \in RowIds(rows) : rows[i].created_at # rows[1].created_at

(* C2: next-page token rule.  After a successful ListEntries whose store   *)
(* call had offset o and returned n entries, nextPageToken is the base64   *)
(* text of the decimal o + n if o + n < totalCount and empty otherwise.    *)
(* With 25 entries and pageSize 10 the pages have 10, 10 and 5 entries,    *)
(* totalCount is 25 each time, the tokens are "MTA=", "MjA=" and "".       *)
C2_NextTokenRule ==
  /\ ListOk =>
       LET nextOffset == calls[1].offset + Len(resp.entries)
       IN  /\ Len(calls) = 1
           /\ nextOffset < resp.totalCount =>
                /\ resp.nextPageToken = EncodeToString(Itoa(nextOffset))
                /\ DecodeString(resp.nextPageToken).bytes = Itoa(nextOffset)
           /\ nextOffset >= resp.totalCount => resp.nextPageToken = << >>
  /\ (/\ walk.start = << >> /\ walk.pageSize = 10
      /\ Cardinality(RowIds(rows)) = 25 /\ walk.state \in {"walking", "done"}) =>
       /\ Len(walk.sizes) = 1 =>
            walk.sizes = << 10 >> /\ walk.token = << "M","T","A","=" >>
       /\ Len(walk.sizes) = 2 =>
            walk.sizes = << 10, 10 >> /\ walk.token = << "M","j","A","=" >>
       /\ Len(walk.sizes) = 3 =>
            walk.sizes = << 10, 10, 5 >> /\ walk.token = << >> /\ walk.state = "done"
       /\ Len(walk.sizes) <= 3
       /\ \A i \in 1..Len(walk.totals) : walk.totals[i] = 25

C2_Witness ==
  /\ walk.state = "done" /\ walk.start = << >> /\ walk.pageSize = 10
  /\ Cardinality(RowIds(rows)) = 25
  /\ walk.sizes = << 10, 10, 5 >>

(* C3: page-size clamping.  A ListEntries with pageSize <= 0 calls the     *)
(* store with limit 10 and answers as pageSize 10 does; with pageSize > 100 *)
(* it calls the store with limit 100 and answers as pageSize 100 does; the *)
(* page size never causes an error, and every List call has a limit in     *)
(* 1..100.                                                                 *)
C3_PageSizeClamp ==
  ListDone =>
    /\ \A i \in 1..Len(calls) : calls[i].m = "List" /\ calls[i].limit \in 1..100
    /\ req.pageSize <= 0 =>
         /\ \A i \in 1..Len(calls) : calls[i].limit = 10
         /\ resp = ListEntriesResult(rows, 10, req.pageToken).resp
    /\ req.pageSize > 100 =>
         /\ \A i \in 1..Len(calls) : calls[i].limit = 100
         /\ resp = ListEntriesResult(rows, 100, req.pageToken).resp
    /\ req.pageSize \in 1..100 =>
         \A i \in 1..Len(calls) : calls[i].limit = req.pageSize
    /\ (req.pageToken = << >> \/ req.pageToken \in {EncodeToString(Itoa(n)) : n \in 0..30}) =>
         resp.err = NoError /\ Len(calls) = 1

C3_Witness ==
  /\ ListOk
  /\ req.pageSize <= 0
  /\ resp.totalCount > 10
  /\ Len(resp.entries) = 10
  /\ calls[1].limit = 10

(* C4: token tamper rejection.  A ListEntries with a non-empty token that  *)
(* is not base64 ("invalid-token", "MQ" without padding) or whose decoded  *)
(* text is not a number ("abc", "-", the empty text) fails with the        *)
(* invalid-page-token error, returns no entries and makes no store call.   *)
C4_TamperRejected ==
  (ListDone /\ req.pageToken \in TamperedTokens) =>
    /\ resp.err = ErrInvalidPageToken
    /\ resp.entries = << >>
    /\ calls = << >>

C4_Witness ==
  /\ ListDone
  /\ req.pageToken = TokenInvalid
  /\ resp.err = ErrInvalidPageToken
  /\ rows # << >>

(* C5: a token that decodes to the decimal text of a negative integer is   *)
(* rejected with the invalid-page-token error, and List is never called    *)
(* with a negative offset.                                                 *)
C5_NegativeOffsetRejected ==
  /\ (ListDone /\ req.pageToken = EncodeToString(Itoa(0 - 5))) =>
       resp.err = ErrInvalidPageToken
  /\ \A i \in 1..Len(calls) : calls[i].m = "List" => calls[i].offset >= 0

(* C10: list ordering.  The entries of one List result are ordered by      *)
(* created_at descending and, within one created_at, by id descending; as  *)
(* ids are assigned in creation order, the newest entry always comes first. *)
C10_ListOrdering ==
  ListOk =>
    \A i \in 1..(Len(resp.entries) - 1) :
      LET a == resp.entries[i]
          b == resp.entries[i + 1]
      IN  /\ a.created_at >= b.created_at
          /\ a.created_at = b.created_at => a.id > b.id
          /\ a.id > b.id

C10_Witness ==
  /\ ListOk
  /\ Len(resp.entries) >= 3
  /\ \E i \in 1..(Len(resp.entries) - 1) :
       resp.entries[i].created_at = resp.entries[i + 1].created_at
  /\ \E i \in 1..(Len(resp.entries) - 1) :
       resp.entries[i].created_at > resp.entries[i + 1].created_at

StoreReached == Len(calls) > 0

(* C6: input validation.  CreateEntry and UpdateEntry fail with a          *)
(* validation error when the title is empty and when the content is empty, *)
(* and then make no store call; with both non-empty they make exactly one  *)
(* store call, Create or Update, with the same title and content.          *)
C6_Validation ==
  req.op \in {"CreateEntry", "UpdateEntry"} =>
    /\ req.title = "" => resp.err = ErrTitleEmpty /\ calls = << >>
    /\ req.content = "" => resp.err \in {ErrTitleEmpty, ErrContentEmpty} /\ calls = << >>
    /\ (req.title # "" /\ req.content = "") => resp.err = ErrContentEmpty
    /\ (req.title # "" /\ req.content # "") =>
         /\ Len(calls) = 1
         /\ calls[1].m = (IF req.op = "CreateEntry" THEN "Create" ELSE "Update")
         /\ calls[1].title = req.title
         /\ calls[1].content = req.content
         /\ calls[1].id = req.id
         /\ resp.err \notin {ErrTitleEmpty, ErrContentEmpty}

C6_Witness ==
  /\ req.op = "UpdateEntry"
  /\ req.title # ""
  /\ req.content = ""
  /\ req.id \in RowIds(rows)
  /\ resp.err = ErrContentEmpty

(* C7: not-found consistency.  GetByID, Update and Delete reaching the     *)
(* store for an id that has no row, because it was never assigned or       *)
(* because its row was deleted, fail with the not-found error.             *)
C7_NotFound ==
  (/\ req.op \in {"GetEntry", "UpdateEntry", "DeleteEntry"}
   /\ StoreReached
   /\ ~old.exists) =>
    /\ resp.err = ErrNotFound
    /\ resp.entry = NilEntry

C7_Witness ==
  /\ req.op = "DeleteEntry"
  /\ req.id <= seq
  /\ ~old.exists
  /\ resp.err = ErrNotFound
  /\ rows # << >>

(* C8: create/get round trip.  A CreateEntry with non-empty title T and    *)
(* content C succeeds, and GetByID of the id it returned then yields that  *)
(* id, non-zero, with title T, content C and created_at = updated_at.      *)
C8_CreateGetRoundTrip ==
  (req.op = "CreateEntry" /\ req.title # "" /\ req.content # "") =>
    LET got == GetByID(rows, resp.entry.id)
    IN  /\ resp.err = NoError
        /\ resp.entry.id # 0
        /\ got.err = NoError
        /\ got.entry.id = resp.entry.id
        /\ got.entry.title = req.title
        /\ got.entry.content = req.content
        /\ got.entry.created_at = got.entry.updated_at
        /\ got.entry = resp.entry

C8_Witness ==
  /\ req.op = "CreateEntry"
  /\ resp.err = NoError
  /\ resp.entry.id = 2
  /\ resp.entry.title = "t2"
  /\ resp.entry.created_at = 2
  /\ GetByID(rows, 2).entry.title = "t2"

(* C9: update timestamps.  A successful Update returns the id it was given, *)
(* the title and content it was given, an updated_at not before the one    *)
(* the entry had, and the created_at the entry was inserted with.          *)
C9_UpdateTimestamps ==
  (req.op = "UpdateEntry" /\ resp.err = NoError) =>
    /\ old.exists
    /\ resp.entry.id = req.id
    /\ resp.entry.title = req.title
    /\ resp.entry.content = req.content
    /\ resp.entry.updated_at >= old.updated_at
    /\ resp.entry.created_at = old.created_at
    /\ resp.entry.created_at = born[req.id]

C9_Witness ==
  /\ req.op = "UpdateEntry"
  /\ resp.err = NoError
  /\ old.updated_at > old.created_at
  /\ resp.entry.updated_at >= old.updated_at
  /\ resp.entry.title = "t2"

(* C11: totalCount.  The total a successful ListEntries returns is the    *)
(* number of all rows of the table, whatever limit and offset the request  *)
(* came to: also when the page is cut short by the limit and when the      *)
(* offset is at or beyond the end.                                         *)
C11_TotalCount ==
  ListOk =>
    /\ resp.totalCount = Cardinality(RowIds(rows))
    /\ resp.totalCount = seq
    /\ \A i \in 1..Len(calls) :
         calls[i].m = "List" => Len(resp.entries) <= resp.totalCount

(* A page asked for from an offset beyond the end of a full table. *)
C11_Witness ==
  /\ walk.state = "done"
  /\ walk.start = EncodeToString(Itoa(26))
  /\ walk.sizes = << 0 >>
  /\ walk.totals = << 25 >>
  /\ Cardinality(RowIds(rows)) = 25

(* C12: id assignment.  Every step that inserts a row gives it an id that  *)
(* is strictly greater than every id given out before and that no row ever *)
(* had, also when the row with the highest id has been deleted.            *)
C12_IdAssignment ==
  [][\A i \in RowIds(rows') \ RowIds(rows) :
       /\ i \notin DOMAIN born
       /\ \A j \in DOMAIN born : j < i
       /\ \A j \in RowIds(rows) : j < i
       /\ req'.op = "CreateEntry"
       /\ resp'.entry.id = i]_vars

(* A Create that follows the deletion of the only, highest-id row. *)
C12_Witness ==
  /\ req.op = "CreateEntry"
  /\ resp.err = NoError
  /\ resp.entry.id = 2
  /\ RowIds(rows) = {2}
  /\ 1 \in DOMAIN born

(* C20: persisted entries are never empty.  Whatever CreateEntry,          *)
(* UpdateEntry and DeleteEntry calls the manager has served, every row of  *)
(* the table has a non-empty title and a non-empty content.                *)
C20_NonEmptyPersisted ==
  \A id \in RowIds(rows) :
    /\ rows[id].title # ""
    /\ rows[id].content # ""

(* An update with an empty content was asked for an existing, once updated *)
(* row and left it as it was.                                              *)
C20_Witness ==
  /\ req.op = "UpdateEntry"
  /\ req.title # ""
  /\ req.content = ""
  /\ resp.err = ErrContentEmpty
  /\ req.id \in RowIds(rows)
  /\ rows[req.id].title = "t2"
  /\ rows[req.id].content = "c1"
  /\ Cardinality(RowIds(rows)) = 2

(* C13: malformed id.  UpdateJournalEntry and DeleteJournalEntry answer an *)
(* id text that is no integer with InvalidArgument and a nil response, and *)
(* make no call of the manager.                                            *)
C13_MalformedId ==
  (rpc.op \in {"UpdateJournalEntry", "DeleteJournalEntry"} /\ rpc.id \in MalformedIds) =>
    /\ rpc.code = InvalidArgument
    /\ rpc.out = NilResponse
    /\ ~rpc.called
    /\ req = NoRequest
    /\ calls = << >>

(* DeleteJournalEntry with the id "invalid" on a table that has rows. *)
C13_Witness ==
  /\ rpc.op = "DeleteJournalEntry"
  /\ rpc.id = IdInvalid
  /\ rpc.code = InvalidArgument
  /\ Cardinality(RowIds(rows)) = 2

(* C14: no swallowed failure.  A handler answers OK with a response only  *)
(* when it called the manager and the manager returned no error; when the  *)
(* manager returned an error the response is nil and the code is not OK;   *)
(* success = true is only given by DeleteJournalEntry after a DeleteEntry  *)
(* that removed the row.                                                   *)
C14_NoSwallowedFailure ==
  rpc.op # "none" =>
    /\ rpc.code = OK =>
         /\ rpc.called
         /\ req.op # "none"
         /\ resp.err = NoError
         /\ ~rpc.out.nil
    /\ (rpc.called /\ resp.err # NoError) =>
         /\ rpc.code # OK
         /\ rpc.out = NilResponse
    /\ rpc.out.success =>
         /\ rpc.op = "DeleteJournalEntry"
         /\ req.op = "DeleteEntry"
         /\ resp.err = NoError
         /\ old.exists
         /\ req.id \notin RowIds(rows)

(* The DELETE statement failed: the row is still there and the reply is    *)
(* nil with a code that is not OK.                                         *)
C14_Witness ==
  /\ rpc.op = "DeleteJournalEntry"
  /\ rpc.called
  /\ resp.err = ErrDelete
  /\ req.id \in RowIds(rows)
  /\ rpc.code = Internal
  /\ rpc.out = NilResponse

(* C15: not-found and storage failure are told apart.  When a request met  *)
(* a missing row and the next request of the same operation met a failure  *)
(* of the database, the two replies carry different status codes.          *)
C15_DistinctErrorClass ==
  [][(/\ rpc.called
      /\ rpc'.called
      /\ rpc'.op = rpc.op
      /\ resp.err = ErrNotFound
      /\ resp'.err \in StorageErrors)
       => rpc'.code # rpc.code]_vars

(* C16: status mapping.  A NotFound or a validation failure the manager    *)
(* returns to CreateJournalEntry or UpdateJournalEntry is answered with    *)
(* InvalidArgument, a NotFound it returns to DeleteJournalEntry with       *)
(* Internal.                                                               *)
C16_StatusMapping ==
  /\ (/\ rpc.op \in {"CreateJournalEntry", "UpdateJournalEntry"}
      /\ rpc.called
      /\ resp.err \in {ErrNotFound, ErrTitleEmpty, ErrContentEmpty})
       => (rpc.code = InvalidArgument /\ rpc.out = NilResponse)
  /\ (/\ rpc.op = "DeleteJournalEntry"
      /\ rpc.called
      /\ resp.err = ErrNotFound)
       => (rpc.code = Internal /\ rpc.out = NilResponse)

(* DeleteJournalEntry for an id whose row was deleted before. *)
C16_Witness ==
  /\ rpc.op = "DeleteJournalEntry"
  /\ rpc.id = Itoa(1)
  /\ resp.err = ErrNotFound
  /\ rpc.code = Internal
  /\ 1 \in DOMAIN born
  /\ RowIds(rows) = {2}

(* C17: pagination under mutation.  A finished walk from the empty token  *)
(* has an id on two pages only if an entry was created between two of its  *)
(* fetches, and misses an id that was in the table from its first fetch to *)
(* its last only if an entry was deleted between two of its fetches; and   *)
(* both do happen (C17_Witness).                                           *)
C17_UnstableUnderMutation ==
  walk.state = "done" =>
    /\ Duplicated(walk.acc) => "create" \in walk.muts
    /\ Omitted(walk, rows) => "delete" \in walk.muts
    /\ walk.muts = {} =>
         /\ Len(walk.acc) = Cardinality(walk.base)
         /\ walk.base = {walk.acc[i] : i \in 1..Len(walk.acc)}

(* One walk with only a Create between its fetches had an id on two pages, *)
(* and one walk with only a Delete between its fetches missed an id that   *)
(* was there throughout.                                                   *)
C17_Witness ==
  /\ walk.state = "done"
  /\ walk.seen = {"duplicate", "omitted"}

(* C18: last writer wins.  With requests running side by side, a row's    *)
(* title and content change only in the step of one request's INSERT or    *)
(* UPDATE, and then both are that request's, so the row always holds the   *)
(* title and content of the write applied last and never a mix; an Update  *)
(* ends with no error if the row is there at its statements, and with      *)
(* not-found, never a conflict, if it is not.                              *)
C18_LastWriterWins ==
  [][/\ \A id \in RowIds(rows') :
          (id \notin RowIds(rows) \/ rows'[id] # rows[id]) =>
            \E p \in Procs :
              /\ procs'[p] # procs[p]
              /\ \A q \in Procs \ {p} : procs'[q] = procs[q]
              /\ procs'[p].pc \in {"inserted", "updated"}
              /\ procs'[p].id = id
              /\ rows'[id].title = procs'[p].title
              /\ rows'[id].content = procs'[p].content
     /\ \A p \in Procs :
          (/\ procs'[p] # procs[p]
           /\ procs'[p].op = "UpdateEntry"
           /\ procs'[p].pc = "done") =>
            /\ procs'[p].err \in {NoError, ErrNotFound}
            /\ procs'[p].err = NoError <=> procs'[p].id \in RowIds(rows)]_vars

(* p1 and p2 update row 1: p1's UPDATE, p2's UPDATE, then both SELECTs.    *)
(* Both end with no error, and the row and both results are p2's.          *)
C18_Witness ==
  /\ \A p \in Procs :
       /\ procs[p].op = "UpdateEntry"
       /\ procs[p].pc = "done"
       /\ procs[p].id = 1
       /\ procs[p].err = NoError
       /\ procs[p].entry.title = "t2"
       /\ procs[p].entry.content = "c2"
  /\ rows[1].title = "t2"
  /\ rows[1].content = "c2"

(* C19: CreateEntry with a non-empty title and content ends with the       *)
(* stored entry or a storage error, under every interleaving never with    *)
(* not-found.                                                              *)
C19_CreateNeverNotFound ==
  \A p \in Procs :
    (procs[p].op = "CreateEntry" /\ procs[p].pc = "done") =>
      /\ procs[p].err # ErrNotFound
      /\ procs[p].entry.id = procs[p].id

(* C21: timestamps of a row.  With a clock that never runs backwards,     *)
(* every row of the table has an updated_at that is not before its         *)
(* created_at, and a created_at that is the one it was inserted with.      *)
C21_UpdatedNotBeforeCreated ==
  \A id \in RowIds(rows) :
    /\ rows[id].updated_at >= rows[id].created_at
    /\ rows[id].created_at = born[id]
    /\ rows[id].updated_at <= clock

(* One row updated after the clock moved on, one row never updated. *)
C21_Witness ==
  /\ RowIds(rows) = {1, 2}
  /\ rows[1].updated_at > rows[1].created_at
  /\ rows[2].updated_at = rows[2].created_at
  /\ req.op = "UpdateEntry"
  /\ resp.err = NoError

(* C22: wire conversion.  An entry in a response of the handler carries   *)
(* the decimal text of the id the manager returned, which parses back to   *)
(* that id, and the title and content the manager returned; a response of  *)
(* ListJournalEntries has the manager's entries in the same number and     *)
(* order, its nextPageToken and its totalCount.                            *)
C22_WireConversion ==
  (rpc.op # "none" /\ rpc.code = OK) =>
    /\ rpc.op \in {"CreateJournalEntry", "UpdateJournalEntry"} =>
         /\ rpc.out.entry.id = Itoa(resp.entry.id)
         /\ ParseInt(rpc.out.entry.id) = [ok |-> TRUE, val |-> resp.entry.id]
         /\ rpc.out.entry.title = resp.entry.title
         /\ rpc.out.entry.content = resp.entry.content
    /\ rpc.op = "ListJournalEntries" =>
         /\ Len(rpc.out.entries) = Len(resp.entries)
         /\ \A i \in 1..Len(resp.entries) :
              /\ ParseInt(rpc.out.entries[i].id) =
                   [ok |-> TRUE, val |-> resp.entries[i].id]
              /\ rpc.out.entries[i].id = Itoa(resp.entries[i].id)
              /\ rpc.out.entries[i].title = resp.entries[i].title
              /\ rpc.out.entries[i].content = resp.entries[i].content
         /\ rpc.out.nextPageToken = resp.nextPageToken
         /\ rpc.out.totalCount = resp.totalCount

(* A second page of ten entries out of 25, the ids 15 down to 6 as text. *)
C22_Witness ==
  /\ rpc.op = "ListJournalEntries"
  /\ rpc.code = OK
  /\ Len(rpc.out.entries) = 10
  /\ rpc.out.entries[1].id = << 49, 53 >>
  /\ rpc.out.entries[10].id = << 54 >>
  /\ rpc.out.totalCount = 25
  /\ rpc.out.nextPageToken = EncodeToString(Itoa(20))

(* C23: window of List.  On a table of T rows, List with a limit of at    *)
(* least 1 and an offset of at least 0 returns min(limit, max(0, T -       *)
(* offset)) entries, those at the positions offset .. offset + limit - 1   *)
(* of the descending order (here: the ids T - offset downwards); on an     *)
(* empty table it returns no entry and a total of 0, without error.        *)
C23_WindowSize ==
  (/\ ListDone
   /\ Len(calls) = 1
   /\ calls[1].m = "List"
   /\ calls[1].limit >= 1
   /\ calls[1].offset >= 0) =>
    LET T == Cardinality(RowIds(rows))
    IN  /\ resp.err = NoError
        /\ Len(resp.entries) = Min(calls[1].limit, Max(0, T - calls[1].offset))
        /\ \A i \in 1..Len(resp.entries) :
             resp.entries[i].id = (T - calls[1].offset) - (i - 1)
        /\ T = 0 => (resp.entries = << >> /\ resp.totalCount = 0)

(* Limit 10 from offset 20 on 25 rows: the five entries 5, 4, 3, 2, 1. *)
C23_Witness ==
  /\ ListOk
  /\ calls = << StoreCall("List", 0, "", "", 10, 20) >>
  /\ Cardinality(RowIds(rows)) = 25
  /\ EntryIds(resp.entries) = << 5, 4, 3, 2, 1 >>

(* C24: hard delete.  The step of a Delete that ends with no error takes  *)
(* exactly the row of that id out of the table: afterwards GetByID of the  *)
(* id is not-found, no List result has the entry, the total is smaller by  *)
(* exactly one, and every other row is as it was.                          *)
C24_HardDelete ==
  [][\A p \in Procs :
       (/\ procs'[p] # procs[p]
        /\ procs'[p].op = "DeleteEntry"
        /\ procs'[p].err = NoError) =>
         LET id == procs'[p].id
         IN  /\ id \in RowIds(rows)
             /\ RowIds(rows') = RowIds(rows) \ {id}
             /\ \A j \in RowIds(rows') : rows'[j] = rows[j]
             /\ GetByID(rows', id).err = ErrNotFound
             /\ \A limit \in 1..MaxCreates, offset \in 0..MaxCreates :
                  LET lst == List(rows', limit, offset)
                  IN  /\ \A i \in 1..Len(lst.entries) : lst.entries[i].id # id
                      /\ lst.totalCount = List(rows, limit, offset).totalCount - 1]_vars

(* p2 has deleted row 2 of two rows; row 1, updated before with another    *)
(* title, is still there.                                                  *)
C24_Witness ==
  /\ procs["p2"].op = "DeleteEntry"
  /\ procs["p2"].pc = "done"
  /\ procs["p2"].id = 2
  /\ procs["p2"].err = NoError
  /\ 2 \in DOMAIN born
  /\ RowIds(rows) = {1}
  /\ rows[1].updated_at > rows[1].created_at

(* C25: following tokens ends.  On a table nobody writes to, from any      *)
(* token ListEntries accepts and any page size: every non-empty            *)
(* nextPageToken encodes an offset strictly greater than the offset of the *)
(* request it answers, and so a walk gets an empty nextPageToken before it *)
(* has made more requests than the table can have pages.                   *)
C25_TokenFollowingTerminates ==
  /\ (ListOk /\ resp.nextPageToken # << >>) =>
       /\ DecodeOffset(resp.nextPageToken).err = NoError
       /\ DecodeOffset(resp.nextPageToken).offset > DecodeOffset(req.pageToken).offset
  /\ walk.state = "walking" => Len(walk.sizes) < MaxWalkSteps

C27_WriteAllOrNothing ==
  [][(/\ req'.op \in {"CreateEntry", "UpdateEntry"}
      /\ calls' # << >>
      /\ resp'.err # NoError)
       => (rows' = rows /\ seq' = seq)]_vars

(* C28: what Update returns.  With other requests running side by side,   *)
(* an Update that ends with no error returns an entry with the title and   *)
(* the content it was given.                                               *)
C28_UpdateReturnsOwnWrite ==
  \A p \in Procs :
    (procs[p].op = "UpdateEntry" /\ procs[p].pc = "done" /\ procs[p].err = NoError) =>
      /\ procs[p].entry.id = procs[p].id
      /\ procs[p].entry.title = procs[p].title
      /\ procs[p].entry.content = procs[p].content

(* C28, amended: what Update returns.  An Update that ends with no error  *)
(* returns the row of its id as the table has it at its read-back: the     *)
(* title and content of the one request that wrote the row last, which are *)
(* its own when no other write of the row ran after its UPDATE.            *)
C28_UpdateReturnsStoredRow ==
  [][\A p \in Procs :
       (/\ procs'[p] # procs[p]
        /\ procs'[p].op = "UpdateEntry"
        /\ procs'[p].pc = "done"
        /\ procs'[p].err = NoError) =>
         /\ procs'[p].id \in RowIds(rows)
         /\ procs'[p].entry = JournalEntry(procs'[p].id, rows[procs'[p].id])
         /\ \E q \in Procs :
              /\ procs'[p].entry.title = ProcTitle(q)
              /\ procs'[p].entry.content = ProcContent(q)]_vars

(* p1's Update of row 1 ended with no error and returned p2's title and    *)
(* content.                                                                *)
C28_Witness ==
  /\ procs["p1"].op = "UpdateEntry"
  /\ procs["p1"].pc = "done"
  /\ procs["p1"].err = NoError
  /\ procs["p1"].id = 1
  /\ procs["p1"].title = "t1"
  /\ procs["p1"].entry.id = 1
  /\ procs["p1"].entry.title = "t2"
  /\ procs["p1"].entry.content = "c2"

(* C29: frame.  A step of GetEntry or ListEntries, a step that ends with  *)
(* a validation error or an invalid page token, a step of a handler that   *)
(* refuses the id text, and a step of an Update or Delete that ends with   *)
(* not-found all leave the rows, their fields and the id sequence as they  *)
(* were.                                                                   *)
C29_Frame ==
  [][(\/ req'.op \in {"GetEntry", "ListEntries"}
      \/ resp'.err \in {ErrTitleEmpty, ErrContentEmpty, ErrInvalidPageToken}
      \/ (rpc'.op # "none" /\ ~rpc'.called)
      \/ (req'.op \in {"UpdateEntry", "DeleteEntry"} /\ resp'.err = ErrNotFound))
       => /\ rows' = rows
          /\ seq' = seq
          /\ NextRowId(rows', seq') = NextRowId(rows, seq)]_vars

(* An Update of the deleted id 1 ended with not-found; row 2 is there. *)
C29_Witness ==
  /\ rpc.op = "UpdateJournalEntry"
  /\ req.op = "UpdateEntry"
  /\ req.id = 1
  /\ req.title = "t2"
  /\ resp.err = ErrNotFound
  /\ 1 \in DOMAIN born
  /\ RowIds(rows) = {2}
  /\ rows[2].title = "t1"

(* ----------------- MockJournalClient: calls one by one ----------------- *)

MockFrame == UNCHANGED <<rows, seq, clock, req, resp, calls, old, born, walk, rpc, procs>>

(* Date() moves on between two calls. *)
MockTick ==
  /\ ~mock.crashed
  /\ mock.now < MaxClock
  /\ mock' = [mock EXCEPT !.now = @ + 1]
  /\ MockFrame

(* shouldSimulateError is set from outside. *)
MockSetError ==
  /\ ~mock.crashed
  /\ mock' = [mock EXCEPT !.shouldSimulateError = ~@]
  /\ MockFrame

createEntry ==
  /\ ~mock.crashed
  /\ mock.nextId <= MaxMockEntries
  /\ LET call == MockCall("createEntry", << >>, 0, None)
     IN  IF mock.shouldSimulateError
         THEN mock' = [mock EXCEPT !.call = call,
                                   !.reply = MockReply(MockServerError, << >>, None, 0)]
         ELSE LET entry == MockEntry(StringInit(mock.nextId), mock.now)
              IN  mock' = [mock EXCEPT !.call = [call EXCEPT !.id = entry.id],
                                       !.nextId = @ + 1,
                                       !.entries = MockPut(@, entry),
                                       !.reply = MockReply(MockNoError, << entry >>, None, 0)]
  /\ MockFrame

(* updateEntry keeps id and createdAt of the entry it replaces. *)
updateEntry ==
  /\ ~mock.crashed
  /\ \E id \in MockIds :
       LET call == MockCall("updateEntry", id, 0, None)
       IN  mock' = [mock EXCEPT
                      !.call = call,
                      !.reply = IF mock.shouldSimulateError
                                THEN MockReply(MockServerError, << >>, None, 0)
                                ELSE IF id \notin DOMAIN mock.entries
                                THEN MockReply(MockNotFound, << >>, None, 0)
                                ELSE MockReply(MockNoError, << mock.entries[id] >>, None, 0)]
  /\ MockFrame

deleteEntry ==
  /\ ~mock.crashed
  /\ \E id \in MockIds :
       LET call == MockCall("deleteEntry", id, 0, None)
       IN  IF mock.shouldSimulateError
           THEN mock' = [mock EXCEPT !.call = call,
                                     !.reply = MockReply(MockServerError, << >>, None, 0)]
           ELSE IF id \notin DOMAIN mock.entries
           THEN mock' = [mock EXCEPT !.call = call,
                                     !.reply = MockReply(MockNotFound, << >>, None, 0)]
           ELSE mock' = [mock EXCEPT !.call = call,
                                     !.entries = MockRemove(@, id),
                                     !.reply = MockReply(MockNoError, << >>, None, 0)]
  /\ MockFrame

(* The page token is nil or one an earlier listEntries returned. *)
listEntries ==
  /\ ~mock.crashed
  /\ \E pageSize \in MockSizes, pageToken \in {None} \cup {Some(t) : t \in mock.issued} :
       LET call == MockCall("listEntries", << >>, pageSize, pageToken)
       IN  IF mock.shouldSimulateError
           THEN mock' = [mock EXCEPT !.call = call,
                                     !.reply = MockReply(MockServerError, << >>, None, 0)]
           ELSE \E sortedEntries \in SortedEntries(mock.entries) :
                  LET reply == MockListEntries(sortedEntries, pageSize, pageToken)
                  IN  mock' = [mock EXCEPT
                                 !.call = call,
                                 !.reply = reply,
                                 !.crashed = reply.trap,
                                 !.issued = IF reply.nextPageToken.some
                                            THEN @ \cup {reply.nextPageToken.val}
                                            ELSE @]
  /\ MockFrame

MockNext ==
  \/ MockTick
  \/ MockSetError
  \/ createEntry
  \/ updateEntry
  \/ deleteEntry
  \/ listEntries

MockSpec == Init /\ [][MockNext]_vars

(* C30: listEntries with any pageSize of 1 or more and any page token an   *)
(* earlier listEntries returned answers with the entries at positions      *)
(* start up to min(start + pageSize, count) of the entries sorted newest   *)
(* first, and never stops the program on an index out of range, also when  *)
(* entries were deleted after the token was issued.                        *)
C30_PaginationTotal ==
  (mock.call.op = "listEntries" /\ mock.reply.error = MockNoError) =>
    /\ ~mock.reply.trap
    /\ \E sortedEntries \in SortedEntries(mock.entries) :
         mock.reply.entries =
           SubSeq(sortedEntries, MockStartIndex(mock.call.pageToken) + 1,
                  Min(MockStartIndex(mock.call.pageToken) + mock.call.pageSize,
                      Len(sortedEntries)))

====
